---- MODULE Spec2Model ----
(***************************************************************************)
(* GRAPE: the resolution sweep (build_history) and the tree assembly       *)
(* (build_tree_from_history, remove_single_descendant_nodes).              *)
(*                                                                         *)
(* Numbers.  Resolutions and branch lengths are floats in the program.     *)
(* The model measures them in integer multiples of 1e-8, the floor of      *)
(* build_tree_from_history: Eps (1e-8) is 1, the fixed increment 0.1 is    *)
(* 10^7 and 1.0 is 10^8.                                                   *)
(*                                                                         *)
(* Languages are opaque strings in the program; the model uses 1..n so     *)
(* that sorted() has an order to sort by.                                  *)
(***************************************************************************)
EXTENDS Integers, Sequences, FiniteSets, TLC

(* ------------------------------ bounds -------------------------------- *)

\* the sweep is followed while |parameter| <= MaxSweep * Increment
MaxSweep == 3
\* longest history handed to build_tree_from_history
MaxEntries == 2
\* two runs side by side are followed while |parameter| <= MaxTwinSweep * Increment
MaxTwinSweep == 1
\* longest list of sets handed to split_sets
MaxSets == 2

(* ------------------------- program constants -------------------------- *)

\* FixedIncrementStrategy.increment, 0.1
Increment == 10000000
\* the branch length floor 1e-8
Eps == 1
\* ete3's default dist of a fresh TreeNode, 1.0
DefaultDist == 100000000
\* one whole unit, 1.0: int(resolution) truncates to a multiple of it
One == 100000000

VARIABLES
    module,            \* which build_history runs: grape.py's or history.py's
    method,            \* argument method
    strategy_name,     \* argument strategy_name
    initial_value,     \* argument initial_value
    adjust_factor,     \* argument adjust_factor, in tenths
    num_languages,     \* argument num_languages
    pc,                \* position of the program
    error,             \* the exception raised, "none" if none
    history,           \* build_history: history; build_tree_from_history: its argument
    parameter,         \* build_history: parameter
    value,             \* DynamicAdjustmentStrategy.value
    detector_invoked,  \* whether find_communities has been invoked
    resolution,        \* resolution handed to the detector in the last invocation
    identified_communities, \* build_history: the detector's last output
    communities,       \* build_history: the last reconciled communities
    nodes,             \* the TreeNode objects, by identity 1..Len(nodes)
    tree_root,         \* the node build_tree_from_history holds as root / returns
    node_resolutions,  \* build_tree_from_history: node_resolutions
    last_observed_ancestor,
    observed_clades,
    entry_idx,         \* position of the loop over history
    clade_idx,         \* position of the loop over entry.communities
    G,                 \* the similarity graph: nodes and edge weights
    graph_args,        \* the arguments of the graph construction under way
    twin,              \* two independent runs of build_history on the same arguments
    split_args         \* the arguments of the call of split_sets under way

sweep_vars == <<module, method, strategy_name, initial_value, adjust_factor,
                num_languages, parameter, value, detector_invoked, resolution,
                identified_communities, communities>>
tree_vars == <<nodes, tree_root, node_resolutions, last_observed_ancestor,
               observed_clades, entry_idx, clade_idx>>
graph_vars == <<G, graph_args>>
vars == <<sweep_vars, pc, error, history, tree_vars, graph_vars, twin, split_args>>

(* ------------------------------ helpers ------------------------------- *)

Max(a, b) == IF a >= b THEN a ELSE b

Abs(a) == IF a >= 0 THEN a ELSE -a

Last(s) == s[Len(s)]

Range(s) == {s[i] : i \in 1..Len(s)}

\* the partitions of the set S into non-empty disjoint blocks
Partitions(S) ==
    {P \in SUBSET (SUBSET S \ {{}}) :
        /\ UNION P = S
        /\ \A X, Y \in P : X # Y => X \cap Y = {}}

(* --------------------------- the similarity graph --------------------- *)

\* G.nodes: the languages.  Four is the least number with which a detector
\* output can merge separated languages and still have more communities than
\* the last accepted entry.
Langs == {1, 2, 3, 4}

\* nx.Graph(): nodes, and a weight for every edge, an edge being the set of
\* its two end points
EmptyGraph == [nodes |-> {}, weight |-> <<>>]

\* the graph handed to build_history: every two languages share one cognate set
SweepGraph ==
    [nodes |-> Langs,
     weight |-> [e \in {{a, b} : a, b \in Langs} \ {{a} : a \in Langs} |-> 1]]

\* no graph construction under way
NoGraphCall == [method |-> "none"]

\* no pair of runs under way
NoTwin == <<>>

\* no call of split_sets under way
NoSplitCall == [list1 |-> <<>>, list2 |-> <<>>]

(* ------------------------- community detection ------------------------ *)

\* the least member of a non-empty set of integers
MinOf(S) == CHOOSE x \in S : \A y \in S : x <= y

\* the blocks of P listed by their least members
RECURSIVE ListByMin(_)
ListByMin(P) ==
    IF P = {} THEN <<>>
    ELSE LET first == CHOOSE X \in P : \A Y \in P : MinOf(X) <= MinOf(Y)
         IN  <<first>> \o ListByMin(P \ {first})

\* What find_communities may return: networkx's greedy_modularity_communities
\* and louvain_communities return a partition of the graph's nodes as a list
\* of frozensets; which partition depends on the weights and the resolution,
\* so every partition is a possible output of every invocation.  The list is
\* modelled in one order, by least member.
DetectorOutputs == {ListByMin(P) : P \in Partitions(Langs)}

\* int(x) for x in units of 1e-8: truncation towards zero to a whole number
IntTrunc(x) == IF x >= 0 THEN (x \div One) * One ELSE -(((-x) \div One) * One)

\* the resolution find_communities hands to networkx
\* grape.py: resolution=int(resolution); history.py: resolution=resolution
detector_resolution(mod, res) == IF mod = "grape" THEN IntTrunc(res) ELSE res

(* ------------------------------ HistoryEntry -------------------------- *)

HistoryEntry(p, c) == [parameter |-> p, communities |-> c]

number_of_communities(entry) == Len(entry.communities)

(* ------------------------------ reconciliation ------------------------ *)

\* sub_result that stops at the first non-empty intersection
RECURSIVE sub_result_first_match(_, _)
sub_result_first_match(list1, set2) ==
    IF list1 = <<>> THEN <<>>
    ELSE IF set2 \cap Head(list1) # {} THEN <<set2 \cap Head(list1)>>
    ELSE sub_result_first_match(Tail(list1), set2)

\* sub_result without `if intersection:`: empty intersections are kept
RECURSIVE sub_result_with_empty(_, _)
sub_result_with_empty(list1, set2) ==
    IF list1 = <<>> THEN <<>>
    ELSE <<set2 \cap Head(list1)>> \o sub_result_with_empty(Tail(list1), set2)

\* inner loop of split_sets: the non-empty intersections of set2 with the
\* sets of list1, in list1's order
RECURSIVE sub_result(_, _)
sub_result(list1, set2) ==
    IF list1 = <<>> THEN <<>>
    ELSE LET intersection == set2 \cap Head(list1)
         IN  (IF intersection # {} THEN <<intersection>> ELSE <<>>)
                \o sub_result(Tail(list1), set2)

\* split_sets with its two loops exchanged: for every set of list1, the
\* intersections with the sets of list2
RECURSIVE split_sets_by_list1(_, _)
split_sets_by_list1(list1, list2) ==
    IF list1 = <<>> THEN <<>>
    ELSE sub_result(list2, Head(list1)) \o split_sets_by_list1(Tail(list1), list2)

\* split_sets that hands list2 back without splitting it
split_sets_identity(list1, list2) == list2

RECURSIVE split_sets(_, _)
split_sets(list1, list2) ==
    IF list2 = <<>> THEN <<>>
    ELSE sub_result(list1, Head(list2)) \o split_sets(list1, Tail(list2))

\* common.decompose_sets, called by grape.py: reconciliation of the identified
\* communities against the previous accepted ones by pairwise intersection
decompose_sets(previous, identified) ==
    LET Inter(i, j) == identified[i] \cap previous[j]
        RECURSIVE Emit(_, _)
        Emit(i, j) ==
            IF i > Len(identified) THEN <<>>
            ELSE IF j > Len(previous) THEN Emit(i + 1, 1)
            ELSE (IF Inter(i, j) # {} THEN <<Inter(i, j)>> ELSE <<>>)
                    \o Emit(i, j + 1)
    IN  Emit(1, 1)

reconcile(mod, previous, identified) ==
    IF mod = "grape" THEN decompose_sets(previous, identified)
    ELSE split_sets(previous, identified)

(* ------------------------- parameter strategies ----------------------- *)

Methods == {"greedy", "louvain", "spectral"}
SupportedMethods == {"greedy", "louvain"}
Strategies == {"fixed", "dynamic", "adaptive", "random"}
\* a strategy table with a catch-all entry
SupportedStrategiesAny == Strategies
SupportedStrategies == {"fixed", "dynamic", "adaptive"}

\* caller-supplied initial_value: 0.0 (the default) and 0.1
InitialValues == {0, Increment}
\* caller-supplied adjust_factor in tenths: -2.0 and 0.5
AdjustFactors == {-20, 5}

\* an initialize that starts every strategy at the caller's initial_value
initialize_at_initial_value(strat, init) == init

\* strategy.initialize()
initialize(strat, init) == IF strat = "fixed" THEN 0 ELSE init

\* FixedIncrementStrategy.update
fixed_update(current_value) == current_value + Increment

\* an update that adds adjust_factor times the increment 0.1: additive growth
dynamic_update_additive(v, af) == v + (af * Increment) \div 10

\* an update that leaves 0 by one increment
dynamic_update_off_zero(v, af) == IF v = 0 THEN Increment ELSE v + (af * v) \div 10

\* DynamicAdjustmentStrategy.update: self.value += self.adjust_factor * self.value
dynamic_update(v, af) == v + (af * v) \div 10

\* should_stop, the same in all three strategies
should_stop(num_communities, target) == num_communities = target

ParamCeiling == MaxSweep * Increment

(* ------------------------------ build_history ------------------------- *)

EmptyTree ==
    /\ nodes = <<>>
    /\ tree_root = 0
    /\ node_resolutions = <<>>
    /\ last_observed_ancestor = <<>>
    /\ observed_clades = <<>>
    /\ entry_idx = 0
    /\ clade_idx = 0

Init ==
    /\ module \in {"grape", "history"}
    /\ method \in Methods
    /\ strategy_name \in Strategies
    /\ initial_value \in InitialValues
    \* only DynamicAdjustmentStrategy.update reads adjust_factor
    /\ adjust_factor \in IF strategy_name = "dynamic" THEN AdjustFactors ELSE {5}
    /\ num_languages \in {Cardinality(Langs) - 1, Cardinality(Langs)}
    /\ pc = "setup"
    /\ error = "none"
    /\ history = <<>>
    /\ parameter = 0
    /\ value = 0
    /\ detector_invoked = FALSE
    /\ resolution = 0
    /\ identified_communities = <<>>
    /\ communities = <<>>
    /\ G = SweepGraph
    /\ graph_args = NoGraphCall
    /\ twin = NoTwin
    /\ split_args = NoSplitCall
    /\ EmptyTree

\* lines up to `parameter = strategy.initialize()`
Setup ==
    /\ pc = "setup"
    /\ IF method \notin SupportedMethods \/ strategy_name \notin SupportedStrategies
       THEN /\ pc' = "raised"
            /\ error' = "ValueError"
            /\ UNCHANGED <<parameter, value>>
       ELSE /\ pc' = "loop"
            /\ error' = "none"
            /\ value' = initial_value
            /\ parameter' = initialize(strategy_name, initial_value)
    /\ UNCHANGED <<module, method, strategy_name, initial_value, adjust_factor,
                   num_languages, detector_invoked, resolution, identified_communities,
                   communities, history, tree_vars, graph_vars, twin, split_args>>

\* an append test without `num_communities > history[-1].number_of_communities`
accept_first_only(hist, param, comms) ==
    IF hist = <<>> THEN Append(hist, HistoryEntry(param, comms)) ELSE hist

\* an append test with `>=` in the place of `>`
accept_not_smaller(hist, param, comms) ==
    IF hist = <<>> \/ Len(comms) >= number_of_communities(Last(hist))
    THEN Append(hist, HistoryEntry(param, comms))
    ELSE hist

\* an append test that puts the new entry in the place of the last one
accept_in_place(hist, param, comms) ==
    IF hist = <<>> THEN Append(hist, HistoryEntry(param, comms))
    ELSE IF Len(comms) > number_of_communities(Last(hist))
    THEN [hist EXCEPT ![Len(hist)] = HistoryEntry(param, comms)]
    ELSE hist

\* the history after the append test of one iteration
accept(hist, param, comms) ==
    IF hist = <<>> \/ Len(comms) > number_of_communities(Last(hist))
    THEN Append(hist, HistoryEntry(param, comms))
    ELSE hist

\* the communities of one iteration taken from the detector as they are
reconciled_raw(mod, hist, identified) == identified

\* the communities of one iteration after reconciliation
reconciled(mod, hist, identified) ==
    IF hist = <<>> THEN identified
    ELSE reconcile(mod, Last(hist).communities, identified)

\* one pass of the `while True` body
Iterate ==
    /\ pc = "loop"
    /\ \E identified \in DetectorOutputs :
        LET new_communities == reconciled(module, history, identified)
            num_communities == Len(new_communities)
            next_parameter ==
                IF strategy_name = "fixed" THEN fixed_update(parameter)
                ELSE dynamic_update(value, adjust_factor)
        IN  /\ identified_communities' = identified
            /\ communities' = new_communities
            /\ history' = accept(history, parameter, new_communities)
            /\ detector_invoked' = TRUE
            /\ resolution' = detector_resolution(module, parameter)
            /\ IF should_stop(num_communities, num_languages)
               THEN /\ pc' = "returned"
                    /\ UNCHANGED <<error, parameter, value>>
               ELSE IF strategy_name = "adaptive"
               \* strategy.update(parameter): AdaptiveDynamicAdjustmentStrategy.update
               \* takes (current_value, current_communities)
               THEN /\ pc' = "raised"
                    /\ error' = "TypeError"
                    /\ UNCHANGED <<parameter, value>>
               ELSE IF Abs(next_parameter) > ParamCeiling
               THEN /\ pc' = "beyond"
                    /\ UNCHANGED <<error, parameter, value>>
               ELSE /\ pc' = "loop"
                    /\ parameter' = next_parameter
                    /\ value' = IF strategy_name = "dynamic" THEN next_parameter ELSE value
                    /\ UNCHANGED error
    /\ UNCHANGED <<module, method, strategy_name, initial_value, adjust_factor,
                   num_languages, tree_vars, graph_vars, twin, split_args>>

Next == Setup \/ Iterate

Spec == Init /\ [][Next]_vars

\* build_history is sequential code: while it has a step to take, it takes it
FairSpec == Spec /\ WF_vars(Next)

(* ------------------------- split_sets on its own --------------------- *)

\* the elements of the sets handed to split_sets
SplitElements == {1, 2, 3}

\* lists of at most MaxSets sets
SetLists == UNION {[1..n -> SUBSET SplitElements] : n \in 0..MaxSets}

SplitInit ==
    /\ split_args \in [list1 : SetLists, list2 : SetLists]
    /\ pc = "split"
    /\ error = "none"
    /\ history = <<>>
    /\ module = "history"
    /\ method = "greedy"
    /\ strategy_name = "fixed"
    /\ initial_value = 0
    /\ adjust_factor = 5
    /\ num_languages = 0
    /\ parameter = 0
    /\ value = 0
    /\ detector_invoked = FALSE
    /\ resolution = 0
    /\ identified_communities = <<>>
    /\ communities = <<>>
    /\ G = EmptyGraph
    /\ graph_args = NoGraphCall
    /\ twin = NoTwin
    /\ EmptyTree

\* communities = split_sets(list1, list2)
SplitSets ==
    /\ pc = "split"
    /\ communities' = split_sets(split_args.list1, split_args.list2)
    /\ pc' = "split_done"
    /\ UNCHANGED <<module, method, strategy_name, initial_value, adjust_factor,
                   num_languages, parameter, value, detector_invoked, resolution,
                   identified_communities, error, history, tree_vars, graph_vars,
                   twin, split_args>>

SplitNext == SplitSets

SplitSpec == SplitInit /\ [][SplitNext]_vars

(* ------------------------ two independent runs ----------------------- *)

\* a run of build_history before its first line
NewRun ==
    [pc |-> "setup", error |-> "none", history |-> <<>>, parameter |-> 0, value |-> 0]

\* the run after the lines up to `parameter = strategy.initialize()`
run_setup(run) ==
    IF method \notin SupportedMethods \/ strategy_name \notin SupportedStrategies
    THEN [run EXCEPT !.pc = "raised", !.error = "ValueError"]
    ELSE [run EXCEPT !.pc = "loop",
                     !.value = initial_value,
                     !.parameter = initialize(strategy_name, initial_value)]

\* the run after one pass of the `while True` body in which the detector
\* returned identified; the run is followed while |parameter| <= ceiling
run_iterate(run, identified, ceiling) ==
    LET new_communities == reconciled(module, run.history, identified)
        num_communities == Len(new_communities)
        next_parameter ==
            IF strategy_name = "fixed" THEN fixed_update(run.parameter)
            ELSE dynamic_update(run.value, adjust_factor)
        appended == [run EXCEPT !.history = accept(run.history, run.parameter, new_communities)]
    IN  IF should_stop(num_communities, num_languages)
        THEN [appended EXCEPT !.pc = "returned"]
        ELSE IF strategy_name = "adaptive"
        THEN [appended EXCEPT !.pc = "raised", !.error = "TypeError"]
        ELSE IF Abs(next_parameter) > ceiling
        THEN [appended EXCEPT !.pc = "beyond"]
        ELSE [appended EXCEPT !.parameter = next_parameter,
                              !.value = IF strategy_name = "dynamic" THEN next_parameter ELSE @]

\* What the detector may return to two independent runs that invoke it at
\* resolutions r1 and r2.  greedy_modularity_communities computes its result
\* from the graph, the weights and the resolution alone.  louvain_communities
\* is called without a seed: it shuffles the nodes with Python's global random
\* generator, which every process seeds anew, so the two runs may be handed
\* different partitions.
TwinOutputs(r1, r2) ==
    {o \in DetectorOutputs \X DetectorOutputs :
        (method = "greedy" /\ r1 = r2) => o[1] = o[2]}

\* two calls of build_history with the same graph, detector name, strategy name
\* and initial parameters
TwinInit ==
    /\ module \in {"grape", "history"}
    /\ method \in SupportedMethods
    /\ strategy_name \in SupportedStrategies
    \* the dynamic strategy is started at a value it moves away from
    /\ initial_value \in IF strategy_name = "dynamic" THEN {Increment} ELSE InitialValues
    /\ adjust_factor = 5
    /\ num_languages = Cardinality(Langs)
    /\ pc = "twin"
    /\ error = "none"
    /\ history = <<>>
    /\ parameter = 0
    /\ value = 0
    /\ detector_invoked = FALSE
    /\ resolution = 0
    /\ identified_communities = <<>>
    /\ communities = <<>>
    /\ G = SweepGraph
    /\ graph_args = NoGraphCall
    /\ twin = <<NewRun, NewRun>>
    /\ split_args = NoSplitCall
    /\ EmptyTree

TwinCeiling == MaxTwinSweep * Increment

TwinFrame == UNCHANGED <<sweep_vars, pc, error, history, tree_vars, graph_vars, split_args>>

\* both runs go through their setup
TwinSetup ==
    /\ pc = "twin"
    /\ twin[1].pc = "setup" /\ twin[2].pc = "setup"
    /\ twin' = <<run_setup(twin[1]), run_setup(twin[2])>>
    /\ TwinFrame

\* both runs go through one pass of their loop
TwinIterate ==
    /\ pc = "twin"
    /\ twin[1].pc = "loop" /\ twin[2].pc = "loop"
    /\ \E o \in TwinOutputs(detector_resolution(module, twin[1].parameter),
                             detector_resolution(module, twin[2].parameter)) :
          twin' = <<run_iterate(twin[1], o[1], TwinCeiling),
                    run_iterate(twin[2], o[2], TwinCeiling)>>
    /\ TwinFrame

\* one run has ended, the other goes through one more pass of its loop
TwinRest ==
    /\ pc = "twin"
    /\ \E i \in {1, 2} :
          /\ twin[i].pc = "loop" /\ twin[3 - i].pc # "loop"
          /\ \E identified \in DetectorOutputs :
                twin' = [twin EXCEPT ![i] = run_iterate(twin[i], identified, TwinCeiling)]
    /\ TwinFrame

TwinNext == TwinSetup \/ TwinIterate \/ TwinRest

TwinSpec == TwinInit /\ [][TwinNext]_vars

(* --------------------------- graph construction ----------------------- *)

\* the languages, concepts and cognate set identifiers of the input data
GraphLangs == {1, 2, 3}
Concepts == {1, 2}
CognateIds == {1, 2}

\* data: a dictionary from (language, concept) to a non-empty set of cognate
\* set identifiers; under the second concept a language has the first cognate
\* set or no entry
DataSets ==
    {d \in UNION {[K -> SUBSET CognateIds \ {{}}] : K \in SUBSET (GraphLangs \X Concepts)} :
        \A k \in DOMAIN d : k[2] = 2 => d[k] = {1}}

\* the orders in which the dictionary may list the languages
Orders ==
    {o \in [1..Cardinality(GraphLangs) -> GraphLangs] :
        \A i, j \in 1..Cardinality(GraphLangs) : i # j => o[i] # o[j]}

\* the sum of the values of a function with a finite domain
RECURSIVE SumFn(_)
SumFn(f) ==
    IF DOMAIN f = {} THEN 0
    ELSE LET x == CHOOSE y \in DOMAIN f : TRUE
         IN  f[x] + SumFn([y \in DOMAIN f \ {x} |-> f[y]])

\* languages and concepts: the first and second components of data's keys
languages(data) == {k[1] : k \in DOMAIN data}
concepts(data) == {k[2] : k \in DOMAIN data}

\* lang_list = list(concept_languages.keys())
lang_list(data, order, concept) ==
    SelectSeq(order, LAMBDA lang : <<lang, concept>> \in DOMAIN data)

\* the pairs (i, j) of `for i in range(n): for j in range(i + 1, n)`
IndexPairs(n) == {ij \in (1..n) \X (1..n) : ij[1] < ij[2]}

\* shared_cognatesets of the i-th and j-th language of a concept
shared_cognatesets(data, order, concept, ij) ==
    data[<<lang_list(data, order, concept)[ij[1]], concept>>]
        \cap data[<<lang_list(data, order, concept)[ij[2]], concept>>]

\* the two keys of language_pairs an (i, j) of a concept adds to
keys_of(data, order, concept, ij) ==
    {<<lang_list(data, order, concept)[ij[1]], lang_list(data, order, concept)[ij[2]]>>,
     <<lang_list(data, order, concept)[ij[2]], lang_list(data, order, concept)[ij[1]]>>}

\* the (concept, (i, j)) whose shared_cognatesets is not empty
sharing_steps(data, order) ==
    {s \in UNION {{<<c, ij>> : ij \in IndexPairs(Len(lang_list(data, order, c)))} :
                     c \in concepts(data)} :
        shared_cognatesets(data, order, s[1], s[2]) # {}}

\* an increment of 1 for every concept with shared cognate sets
shared_weight_one(shared) == 1

\* the increment of cognateset_graph: len(shared_cognatesets)
shared_weight(shared) == Cardinality(shared)

\* language_pairs of cognateset_graph: a key exists once it was added to
language_pairs(data, order) ==
    LET steps == sharing_steps(data, order)
        keys == UNION {keys_of(data, order, s[1], s[2]) : s \in steps}
    IN  [key \in keys |->
            SumFn([s \in steps |->
                      IF key \in keys_of(data, order, s[1], s[2])
                      THEN shared_weight(shared_cognatesets(data, order, s[1], s[2]))
                      ELSE 0])]

\* position of a language in an order
PositionIn(order, lang) == CHOOSE i \in 1..Len(order) : order[i] = lang

\* Of the two keys of an edge, the one G.add_edge is called with last: keys
\* are listed in the order of their first insertion, (lang1, lang2) before
\* (lang2, lang1), lang1 being the language listed first.
last_key(order, edge) ==
    LET first == CHOOSE a \in edge : \A b \in edge : PositionIn(order, a) <= PositionIn(order, b)
        second == CHOOSE b \in edge : b # first \/ edge = {first}
    IN  <<second, first>>

\* a graph in which only the end points of edges are nodes
new_graph_without_add_node(langs, order, pairs, positive) ==
    LET kept == {key \in DOMAIN pairs : positive[key]}
    IN  [nodes |-> {key[1] : key \in kept} \cup {key[2] : key \in kept},
         weight |-> [edge \in {{key[1], key[2]} : key \in kept} |->
                        pairs[last_key(order, edge)]]]

\* G = nx.Graph(); G.add_node for every language; G.add_edge for every key of
\* language_pairs whose weight is > 0
new_graph(langs, order, pairs, positive) ==
    LET kept == {key \in DOMAIN pairs : positive[key]}
    IN  [nodes |-> langs \cup {key[1] : key \in kept} \cup {key[2] : key \in kept},
         weight |-> [edge \in {{key[1], key[2]} : key \in kept} |->
                        pairs[last_key(order, edge)]]]

cognateset_graph(data, order) ==
    LET pairs == language_pairs(data, order)
    IN  new_graph(languages(data), order, pairs, [key \in DOMAIN pairs |-> pairs[key] > 0])

(* Floats of adjusted_cognateset_graph.  A weight is a numpy float: a finite *)
(* value or inf.  Distances are counted in quarters and proximity_weight in  *)
(* halves, so that the powers and quotients below are whole numbers.         *)

Finite(v) == [inf |-> FALSE, val |-> v]
Infinite == [inf |-> TRUE, val |-> 0]

float_add(x, y) == IF x.inf \/ y.inf THEN Infinite ELSE Finite(x.val + y.val)

\* x * k for a whole number k >= 1
float_times(x, k) == IF x.inf THEN Infinite ELSE Finite(x.val * k)

\* x > 0
float_positive(x) == x.inf \/ x.val > 0

\* the sum of the float values of a function with a finite domain
RECURSIVE SumFloat(_)
SumFloat(f) ==
    IF DOMAIN f = {} THEN Finite(0)
    ELSE LET x == CHOOSE y \in DOMAIN f : TRUE
         IN  float_add(f[x], SumFloat([y \in DOMAIN f \ {x} |-> f[y]]))

\* entries of the distance matrix, in quarters: 0.0, 0.25 and 1.0
Distances == {0, 1, 4}
\* (proximity_weight, sharing_factor), proximity_weight in halves:
\* (0.0, 1.0), (0.5, 0.0), (0.5, 1.0) and (1.0, 1.0)
Exponents == {<<0, 1>>, <<1, 0>>, <<1, 1>>, <<2, 1>>}

\* symmetric distance matrices with a zero diagonal
DistanceMatrices ==
    {m \in [(1..Cardinality(GraphLangs)) \X (1..Cardinality(GraphLangs)) -> Distances] :
        \A i, j \in 1..Cardinality(GraphLangs) :
            /\ m[<<i, j>>] = m[<<j, i>>]
            /\ m[<<i, i>>] = 0}

\* proximity_correction = 1 / (distance_matrix[idx1, idx2] ** proximity_weight)
\* x ** 0.0 is 1.0 also for x = 0.0; otherwise 0.0 ** p is 0.0 and numpy's
\* 1 / 0.0 is inf (a RuntimeWarning, no exception)
proximity_correction(distance, proximity_weight) ==
    IF proximity_weight = 0 THEN Finite(1)
    ELSE IF distance = 0 THEN Infinite
    ELSE IF proximity_weight = 1
    THEN Finite(2 \div (CHOOSE r \in 0..distance : r * r = distance))
    ELSE Finite(4 \div distance)

\* sharing_correction = len(shared_cognatesets) ** sharing_factor
sharing_correction(n, sharing_factor) == IF sharing_factor = 0 THEN 1 ELSE n

\* language_index: the position of a language in sorted_languages
language_index(sorted_languages) ==
    [lang \in Range(sorted_languages) |-> PositionIn(sorted_languages, lang)]

\* weight_adjustment of the i-th and j-th language of a concept
weight_adjustment(args, concept, ij) ==
    LET ll == lang_list(args.data, args.order, concept)
        idx1 == language_index(args.sorted_languages)[ll[ij[1]]]
        idx2 == language_index(args.sorted_languages)[ll[ij[2]]]
    IN  float_times(proximity_correction(args.distance_matrix[<<idx1, idx2>>],
                                         args.proximity_weight),
                    sharing_correction(
                        Cardinality(shared_cognatesets(args.data, args.order, concept, ij)),
                        args.sharing_factor))

\* language_pairs of adjusted_cognateset_graph
adjusted_language_pairs(args) ==
    LET steps == {s \in sharing_steps(args.data, args.order) :
                     keys_of(args.data, args.order, s[1], s[2])
                         \subseteq Range(args.sorted_languages) \X Range(args.sorted_languages)}
        keys == UNION {keys_of(args.data, args.order, s[1], s[2]) : s \in steps}
    IN  [key \in keys |->
            SumFloat([s \in steps |->
                         IF key \in keys_of(args.data, args.order, s[1], s[2])
                         THEN weight_adjustment(args, s[1], s[2])
                         ELSE Finite(0)])]

adjusted_cognateset_graph(args) ==
    LET pairs == adjusted_language_pairs(args)
    IN  new_graph(languages(args.data), args.order, pairs,
                  [key \in DOMAIN pairs |-> float_positive(pairs[key])])

\* the calls of the two graph builders
GraphCalls ==
    {[method |-> "cognateset_graph", data |-> d, order |-> o,
      distance_matrix |-> <<>>, sorted_languages |-> <<>>,
      proximity_weight |-> 1, sharing_factor |-> 0] :
        d \in DataSets, o \in Orders}
    \cup
    {[method |-> "adjusted_cognateset_graph", data |-> d, order |-> <<1, 2, 3>>,
      distance_matrix |-> m, sorted_languages |-> sl,
      proximity_weight |-> c[1], sharing_factor |-> c[2]] :
        d \in DataSets, m \in DistanceMatrices, sl \in {<<1, 2, 3>>, <<1, 2>>},
        c \in Exponents}

GraphInit ==
    /\ graph_args \in GraphCalls
    /\ G = EmptyGraph
    /\ pc = "graph"
    /\ error = "none"
    /\ history = <<>>
    /\ module = "grape"
    /\ method = "greedy"
    /\ strategy_name = "fixed"
    /\ initial_value = 0
    /\ adjust_factor = 5
    /\ num_languages = 0
    /\ parameter = 0
    /\ value = 0
    /\ detector_invoked = FALSE
    /\ resolution = 0
    /\ identified_communities = <<>>
    /\ communities = <<>>
    /\ twin = NoTwin
    /\ split_args = NoSplitCall
    /\ EmptyTree

CognatesetGraph ==
    /\ pc = "graph"
    /\ graph_args.method = "cognateset_graph"
    /\ G' = cognateset_graph(graph_args.data, graph_args.order)
    /\ pc' = "built"
    /\ UNCHANGED <<sweep_vars, error, history, tree_vars, graph_args, twin, split_args>>

AdjustedCognatesetGraph ==
    /\ pc = "graph"
    /\ graph_args.method = "adjusted_cognateset_graph"
    /\ G' = adjusted_cognateset_graph(graph_args)
    /\ pc' = "built"
    /\ UNCHANGED <<sweep_vars, error, history, tree_vars, graph_args, twin, split_args>>

GraphNext == CognatesetGraph \/ AdjustedCognatesetGraph

GraphSpec == GraphInit /\ [][GraphNext]_vars

(* ------------------------------ ete3 TreeNode ------------------------- *)

\* A node is nodes[id]; up = 0 is None.  name is the list of the languages
\* joined by "/" (the empty list is the empty name, a one-element list is a
\* language identifier).

\* TreeNode(name=...) / Tree(): a detached node with ete3's default dist
TreeNode(name) == [name |-> name, up |-> 0, children |-> <<>>, dist |-> DefaultDist]

\* the sequence s without the first occurrence of x
RECURSIVE RemoveFirst(_, _)
RemoveFirst(s, x) ==
    IF s = <<>> THEN <<>>
    ELSE IF Head(s) = x THEN Tail(s)
    ELSE <<Head(s)>> \o RemoveFirst(Tail(s), x)

\* parent.add_child(child, dist=d): sets dist, appends to parent.children and
\* sets child.up; the child's former parent keeps it in its children list
add_child(ns, parent, child, d) ==
    [ns EXCEPT ![parent].children = Append(@, child),
               ![child].up = parent,
               ![child].dist = d]

\* parent.remove_child(child)
remove_child(ns, parent, child) ==
    [ns EXCEPT ![parent].children = RemoveFirst(@, child),
               ![child].up = 0]

\* node.detach()
detach(ns, n) ==
    IF ns[n].up # 0 THEN remove_child(ns, ns[n].up, n) ELSE ns

is_leaf(ns, n) == Len(ns[n].children) = 0

\* the nodes below n, n included
RECURSIVE Descendants(_, _)
Descendants(ns, n) ==
    {n} \cup UNION {Descendants(ns, ns[n].children[k]) : k \in 1..Len(ns[n].children)}

\* node.get_leaves()
get_leaves(ns, n) == {m \in Descendants(ns, n) : is_leaf(ns, m)}

(* ------------------- remove_single_descendant_nodes ------------------- *)

\* a splice that leaves the child's dist as it was
splice_keep_dist(ns, current_node) ==
    LET child == ns[current_node].children[1]
        up == ns[current_node].up
    IN  remove_child(add_child(ns, up, child, ns[child].dist), up, current_node)

\* the splice of the unary node current_node out of the tree
splice(ns, current_node) ==
    LET child == ns[current_node].children[1]
        up == ns[current_node].up
        \* child.dist += current_node.dist
        new_dist == ns[child].dist + ns[current_node].dist
    IN  remove_child(add_child(ns, up, child, new_dist), up, current_node)

\* the `while stack` loop of prune_node
RECURSIVE prune_loop(_, _)
prune_loop(ns, stack) ==
    IF stack = <<>> THEN ns
    ELSE LET current_node == Last(stack)
             \* stack.pop(), then the children are pushed
             pushed == SubSeq(stack, 1, Len(stack) - 1) \o ns[current_node].children
         IN  IF Len(ns[current_node].children) = 1 /\ ns[current_node].up # 0
             THEN prune_loop(splice(ns, current_node), pushed)
             ELSE prune_loop(ns, pushed)

prune_node(ns, node) == prune_loop(ns, <<node>>)

\* remove_single_descendant_nodes that returns the node it was given, also
\* after its only child was detached as the new root
remove_single_descendant_nodes_stale_root(ns, tree) ==
    LET pruned == prune_node(ns, tree)
    IN  IF Len(pruned[tree].children) = 1 /\ ~is_leaf(pruned, tree)
        THEN LET new_root == pruned[tree].children[1]
             IN  [nodes |-> [detach(pruned, new_root) EXCEPT ![new_root].dist = 0],
                  root |-> tree]
        ELSE [nodes |-> pruned, root |-> tree]

\* remove_single_descendant_nodes without the check of the root
remove_single_descendant_nodes_keep_root(ns, tree) ==
    [nodes |-> prune_node(ns, tree), root |-> tree]

\* the nodes and the root after remove_single_descendant_nodes(tree)
remove_single_descendant_nodes(ns, tree) ==
    LET pruned == prune_node(ns, tree)
    IN  IF Len(pruned[tree].children) = 1 /\ ~is_leaf(pruned, tree)
        THEN LET new_root == pruned[tree].children[1]
             IN  [nodes |-> [detach(pruned, new_root) EXCEPT ![new_root].dist = 0],
                  root |-> new_root]
        ELSE [nodes |-> pruned, root |-> tree]

(* ------------------------ build_tree_from_history --------------------- *)

\* sorted(list(S)) for a set of languages
RECURSIVE Sorted(_)
Sorted(S) == IF S = {} THEN <<>> ELSE <<MinOf(S)>> \o Sorted(S \ {MinOf(S)})

\* "/".join(sorted(list(clade_members)))
clade_label(clade_members) == Sorted(clade_members)

\* taxa: the languages of the last entry
taxa(hist) ==
    IF Last(hist).communities # <<>> THEN UNION Range(Last(hist).communities) ELSE {}

\* the first position (entry, clade) at or after (i, j) that holds a clade
RECURSIVE Position(_, _, _)
Position(hist, i, j) ==
    IF i > Len(hist) THEN <<i, 1>>
    ELSE IF j > Len(hist[i].communities) THEN Position(hist, i + 1, 1)
    ELSE <<i, j>>

\* potential_parents cut down to one arbitrary ancestor
potential_parents_any(loa, clade_members) ==
    IF clade_members \cap DOMAIN loa = {} THEN {}
    ELSE {loa[MinOf(clade_members \cap DOMAIN loa)]}

\* potential_parents that always answers with the root
potential_parents_root(loa, clade_members) ==
    IF clade_members \cap DOMAIN loa = {} THEN {} ELSE {1}

\* potential_parents of a clade
potential_parents(loa, clade_members) ==
    {loa[member] : member \in clade_members \cap DOMAIN loa}

\* a test of observed_clades that never finds the clade
already_observed_never(observed, clade_members) == FALSE

\* `clade_members in observed_clades`: equality of frozensets
already_observed(observed, clade_members) == clade_members \in Range(observed)

\* branch_length measured from the root, whatever the parent
branch_length_from_root(child_resolution, parent_resolution) ==
    Max(Eps, child_resolution)

\* branch_length without the floor
branch_length_unfloored(child_resolution, parent_resolution) ==
    child_resolution - parent_resolution

\* branch_length = max(1e-8, node_resolutions[new_node] - parent_resolution)
branch_length(child_resolution, parent_resolution) ==
    Max(Eps, child_resolution - parent_resolution)

\* parameters of the entries handed to build_tree_from_history: 0 and 2e-8
TreeParams == {0, 2}
\* languages of the histories handed to build_tree_from_history
TreeTaxa == {1, 2, 3}

\* the lists of pairwise disjoint clades over S, listed by least member
DisjointCladeLists(S) ==
    {ListByMin(P) : P \in {Q \in SUBSET (SUBSET S \ {{}}) :
                             \A X, Y \in Q : X # Y => X \cap Y = {}}}

\* communities of an entry: disjoint clades, or one empty clade
TreeEntries == DisjointCladeLists(TreeTaxa) \cup {<<{}>>}

TreeHistories ==
    UNION {[1..n -> {HistoryEntry(p, c) : p \in TreeParams, c \in TreeEntries}] :
              n \in 0..MaxEntries}

\* the state build_history is left in when only the tree is assembled
NoSweep ==
    /\ module = "grape"
    /\ method = "greedy"
    /\ strategy_name = "fixed"
    /\ initial_value = 0
    /\ adjust_factor = 5
    /\ num_languages = 0
    /\ parameter = 0
    /\ value = 0
    /\ detector_invoked = FALSE
    /\ resolution = 0
    /\ identified_communities = <<>>
    /\ communities = <<>>
    /\ G = EmptyGraph
    /\ graph_args = NoGraphCall
    /\ twin = NoTwin
    /\ split_args = NoSplitCall

TreeInit ==
    /\ NoSweep
    /\ history \in TreeHistories
    /\ pc = "assemble"
    /\ error = "none"
    /\ EmptyTree

\* build_tree_from_history without `if not history: return TreeNode()`:
\* history[-1] of an empty history raises IndexError
TreeStart_without_empty_case ==
    /\ pc = "assemble"
    /\ IF history = <<>>
       THEN /\ nodes' = <<TreeNode(<<>>)>>
            /\ tree_root' = 1
            /\ pc' = "raised"
            /\ error' = "IndexError"
            /\ UNCHANGED <<node_resolutions, last_observed_ancestor, entry_idx, clade_idx>>
       ELSE /\ nodes' = <<TreeNode(<<>>)>>
            /\ tree_root' = 1
            /\ node_resolutions' = <<0>>
            /\ last_observed_ancestor' = [taxon \in taxa(history) |-> 1]
            /\ entry_idx' = Position(history, 1, 1)[1]
            /\ clade_idx' = Position(history, 1, 1)[2]
            /\ pc' = IF Position(history, 1, 1)[1] > Len(history) THEN "prune" ELSE "clades"
            /\ UNCHANGED error
    /\ observed_clades' = <<>>
    /\ UNCHANGED <<sweep_vars, graph_vars, twin, split_args, history>>

\* build_tree_from_history up to the loop over history
TreeStart ==
    /\ pc = "assemble"
    /\ IF history = <<>>
       THEN \* return TreeNode()
            /\ nodes' = <<TreeNode(<<>>)>>
            /\ tree_root' = 1
            /\ pc' = "done"
            /\ UNCHANGED <<node_resolutions, last_observed_ancestor, entry_idx, clade_idx>>
       ELSE /\ nodes' = <<TreeNode(<<>>)>>
            /\ tree_root' = 1
            /\ node_resolutions' = <<0>>
            /\ last_observed_ancestor' = [taxon \in taxa(history) |-> 1]
            /\ entry_idx' = Position(history, 1, 1)[1]
            /\ clade_idx' = Position(history, 1, 1)[2]
            /\ pc' = IF Position(history, 1, 1)[1] > Len(history) THEN "prune" ELSE "clades"
    /\ observed_clades' = <<>>
    /\ UNCHANGED <<sweep_vars, graph_vars, twin, split_args, error, history>>

\* one pass of the body of `for clade_members in clades_in_entry`
ProcessClade ==
    /\ pc = "clades"
    /\ LET entry == history[entry_idx]
           current_entry_resolution == entry.parameter
           clade_members == entry.communities[clade_idx]
           new_node == Len(nodes) + 1
           parents == potential_parents(last_observed_ancestor, clade_members)
           next == Position(history, entry_idx, clade_idx + 1)
           advance ==
               /\ entry_idx' = next[1]
               /\ clade_idx' = next[2]
               /\ pc' = IF next[1] > Len(history) THEN "prune" ELSE "clades"
               /\ error' = error
           attach(actual_parent_node) ==
               /\ nodes' = add_child(Append(nodes, TreeNode(clade_label(clade_members))),
                                     actual_parent_node, new_node,
                                     branch_length(current_entry_resolution,
                                                   node_resolutions[actual_parent_node]))
               /\ node_resolutions' = Append(node_resolutions, current_entry_resolution)
               /\ observed_clades' = Append(observed_clades, clade_members)
               /\ last_observed_ancestor' =
                      [member \in DOMAIN last_observed_ancestor \cup clade_members |->
                          IF member \in clade_members THEN new_node
                          ELSE last_observed_ancestor[member]]
               /\ advance
           raise ==
               /\ pc' = "raised"
               /\ error' = "ValueError"
               /\ UNCHANGED <<nodes, node_resolutions, observed_clades,
                              last_observed_ancestor, entry_idx, clade_idx>>
       IN  IF clade_members = {} \/ already_observed(observed_clades, clade_members)
           THEN \* continue
                /\ advance
                /\ UNCHANGED <<nodes, node_resolutions, observed_clades,
                               last_observed_ancestor>>
           ELSE IF parents = {}
           THEN IF current_entry_resolution = history[1].parameter
                THEN attach(tree_root)
                ELSE raise
           ELSE IF Cardinality(parents) > 1
           THEN raise
           ELSE attach(CHOOSE q \in parents : TRUE)
    /\ UNCHANGED <<sweep_vars, graph_vars, twin, split_args, history, tree_root>>

\* final_tree_root = remove_single_descendant_nodes(tree_root)
RemoveUnary ==
    /\ pc = "prune"
    /\ nodes' = remove_single_descendant_nodes(nodes, tree_root).nodes
    /\ tree_root' = remove_single_descendant_nodes(nodes, tree_root).root
    /\ pc' = "cleanup"
    /\ UNCHANGED <<sweep_vars, graph_vars, twin, split_args, error, history, node_resolutions, last_observed_ancestor,
                   observed_clades, entry_idx, clade_idx>>

(* ------------------- sort_descendants and ladderize ------------------- *)

\* string order on names, a name being its list of languages
RECURSIVE NameLess(_, _)
NameLess(a, b) ==
    IF b = <<>> THEN FALSE
    ELSE IF a = <<>> THEN TRUE
    ELSE IF Head(a) # Head(b) THEN Head(a) < Head(b)
    ELSE NameLess(Tail(a), Tail(b))

\* sorted(names) for a set of names
RECURSIVE SortedNames(_)
SortedNames(N) ==
    IF N = {} THEN <<>>
    ELSE LET least == CHOOSE a \in N : \A b \in N : a = b \/ NameLess(a, b)
         IN  <<least>> \o SortedNames(N \ {least})

\* order on the sort keys of sort_descendants, the sorted lists of leaf names
RECURSIVE KeyLess(_, _)
KeyLess(k, l) ==
    IF l = <<>> THEN FALSE
    ELSE IF k = <<>> THEN TRUE
    ELSE IF Head(k) # Head(l) THEN NameLess(Head(k), Head(l))
    ELSE KeyLess(Tail(k), Tail(l))

\* sort_descendants' key of node x: sorted(node2content[x])
names_key(ns, x) == SortedNames({ns[m].name : m \in get_leaves(ns, x)})

\* ladderize's key of node x: the number of leaves below it
size_key(ns, x) == Cardinality(get_leaves(ns, x))

\* acc, sorted, with x put behind the elements that are not above it
InsertAt(acc, x, not_above) ==
    LET at == Cardinality({i \in 1..Len(acc) : not_above[i]})
    IN  SubSeq(acc, 1, at) \o <<x>> \o SubSeq(acc, at + 1, Len(acc))

\* children.sort(key=names_key): a stable sort
RECURSIVE sort_by_names(_, _, _)
sort_by_names(ns, acc, rest) ==
    IF rest = <<>> THEN acc
    ELSE LET x == Head(rest)
             not_above == [i \in 1..Len(acc) |->
                              ~KeyLess(names_key(ns, x), names_key(ns, acc[i]))]
         IN  sort_by_names(ns, InsertAt(acc, x, not_above), Tail(rest))

\* children.sort(key=size_key): a stable sort
RECURSIVE sort_by_size(_, _, _)
sort_by_size(ns, acc, rest) ==
    IF rest = <<>> THEN acc
    ELSE LET x == Head(rest)
             not_above == [i \in 1..Len(acc) |-> size_key(ns, acc[i]) <= size_key(ns, x)]
         IN  sort_by_size(ns, InsertAt(acc, x, not_above), Tail(rest))

\* the cleanup without `node.name = ""`
cleaned_keep_names(ns, root) ==
    [n \in DOMAIN ns |->
        IF n \in Descendants(ns, root) /\ ~is_leaf(ns, n)
        THEN [ns[n] EXCEPT
                 !.children = sort_by_size(ns, <<>>, sort_by_names(ns, <<>>, ns[n].children))]
        ELSE ns[n]]

\* the nodes after the name cleanup, sort_descendants() and ladderize() below root
cleaned(ns, root) ==
    [n \in DOMAIN ns |->
        IF n \in Descendants(ns, root) /\ ~is_leaf(ns, n)
        THEN [ns[n] EXCEPT
                 !.name = <<>>,
                 !.children = sort_by_size(ns, <<>>, sort_by_names(ns, <<>>, ns[n].children))]
        ELSE ns[n]]

\* the rest of build_tree_from_history: names, order, return final_tree_root
Cleanup ==
    /\ pc = "cleanup"
    /\ nodes' = cleaned(nodes, tree_root)
    /\ pc' = "done"
    /\ UNCHANGED <<sweep_vars, graph_vars, twin, split_args, error, history, tree_root, node_resolutions,
                   last_observed_ancestor, observed_clades, entry_idx, clade_idx>>

TreeNext == TreeStart \/ ProcessClade \/ RemoveUnary \/ Cleanup

TreeSpec == TreeInit /\ [][TreeNext]_vars

(* ------------------------- properties of a history -------------------- *)

\* the positions of the clades of entry e that contain the set c
Containing(e, c) == {k \in 1..Len(e.communities) : c \subseteq e.communities[k]}

\* every clade of each entry is a subset of exactly one clade of the entry before
Refines(hist) ==
    \A i \in 1..(Len(hist) - 1) :
        \A k \in 1..Len(hist[i + 1].communities) :
            Cardinality(Containing(hist[i], hist[i + 1].communities[k])) = 1

\* the clades of entry e are non-empty, pairwise disjoint and cover S
Covers(e, S) ==
    /\ \A k \in 1..Len(e.communities) : e.communities[k] # {}
    /\ \A k, l \in 1..Len(e.communities) :
            k # l => e.communities[k] \cap e.communities[l] = {}
    /\ UNION Range(e.communities) = S

\* the clades of entry e are exactly one singleton per member of S
Singletons(e, S) ==
    /\ Len(e.communities) = Cardinality(S)
    /\ \A x \in S : \E k \in 1..Len(e.communities) : e.communities[k] = {x}

\* the detector's output `identified` has a community that lies in no clade of
\* the last entry of hist: it merges languages that entry keeps apart
Merged(hist, identified) ==
    /\ hist # <<>>
    /\ \E k \in 1..Len(identified) : Containing(Last(hist), identified[k]) = {}

(* ------------------------------- claims ------------------------------- *)

\* C1 (monotonic refinement): in the history build_history returns, every
\* clade of entry i+1 is a subset of exactly one clade of entry i, whatever
\* partitions the detector returned.
C1_MonotonicRefinement == pc = "returned" => Refines(history)

\* C1 witness: a returned history of three entries, the last of which was
\* reconciled from a detector output that merged languages the previous
\* entry had separated.
C1_Witness ==
    /\ pc = "returned"
    /\ Len(history) >= 3
    /\ Last(history).communities = communities
    /\ Merged(SubSeq(history, 1, Len(history) - 1), identified_communities)

\* C2 (coverage): every entry of the returned history has non-empty, pairwise
\* disjoint clades whose union is the full language set (the detector of the
\* model returns partitions of the graph's nodes only).
C2_Coverage ==
    pc = "returned" => \A i \in 1..Len(history) : Covers(history[i], Langs)

\* C2 witness: a returned history with a reconciled entry that differs from
\* the detector's output it was derived from.
C2_Witness ==
    /\ pc = "returned"
    /\ Len(history) >= 2
    /\ Last(history).communities = communities
    /\ communities # identified_communities

\* C3 (terminal completeness): when build_history returns and num_languages
\* is the number of graph nodes, the last entry is exactly one singleton
\* clade per language.
C3_TerminalCompleteness ==
    (pc = "returned" /\ num_languages = Cardinality(Langs)) =>
        (history # <<>> /\ Singletons(Last(history), Langs))

\* C3 witness: a return with the number of graph nodes as target, after three
\* accepted entries, the last one cut out of a coarser detector output.
C3_Witness ==
    /\ pc = "returned"
    /\ num_languages = Cardinality(Langs)
    /\ Len(history) >= 3
    /\ Len(identified_communities) < Len(communities)

\* C4 (non-convergence is bounded): the sweep always ends: it returns, or it
\* raises.  Stated for the calls whose target is the number of graph nodes;
\* runs that leave the modelled range of the parameter are not held against
\* the claim.
C4_SweepEnds ==
    num_languages = Cardinality(Langs) => <>(pc \in {"returned", "raised", "beyond"})

\* C6 (configuration errors fail fast): with an unsupported detector or
\* strategy name build_history raises ValueError, the detector is never
\* invoked and no history entry is created.
C6_ConfigFailsFast ==
    (method \notin {"greedy", "louvain"} \/
     strategy_name \notin {"fixed", "dynamic", "adaptive"}) =>
        /\ pc \in {"setup", "raised"}
        /\ pc = "raised" => error = "ValueError"
        /\ ~detector_invoked
        /\ history = <<>>

\* C6 witness: the error raised for a supported detector with an unsupported
\* strategy name.
C6_Witness ==
    /\ pc = "raised"
    /\ error = "ValueError"
    /\ method = "louvain"
    /\ strategy_name = "random"

(* ------------------------- properties of a tree ----------------------- *)

\* the nodes of the tree build_tree_from_history holds
TreeNodes == Descendants(nodes, tree_root)

Leaves == get_leaves(nodes, tree_root)

\* the languages of a history
Languages(hist) == UNION {UNION Range(hist[i].communities) : i \in 1..Len(hist)}

\* coverage, monotonic refinement and terminal completeness
Consistent(hist) ==
    /\ hist # <<>>
    /\ \A i \in 1..Len(hist) : Covers(hist[i], Languages(hist))
    /\ Refines(hist)

Complete(hist) == Consistent(hist) /\ Singletons(Last(hist), Languages(hist))

\* the clade the loop over the history is at
CurrentClade == history[entry_idx].communities[clade_idx]

\* the last observed ancestors of the members of the clade the loop is at
CurrentAncestors ==
    {last_observed_ancestor[m] : m \in CurrentClade \cap DOMAIN last_observed_ancestor}

\* the leaves named by the languages of clade
LeavesOf(clade) == {n \in Leaves : \E m \in clade : nodes[n].name = <<m>>}

\* names of the leaves below the most recent common ancestor of the leaves of
\* clade's members (get_mrca_leaves of the tests: empty with fewer than 2 leaves)
MrcaLeafNames(clade) ==
    IF Cardinality(LeavesOf(clade)) < 2 THEN {}
    ELSE LET common == {n \in TreeNodes : LeavesOf(clade) \subseteq Descendants(nodes, n)}
             mrca == CHOOSE n \in common : \A o \in common : n \in Descendants(nodes, o)
         IN  {nodes[l].name : l \in get_leaves(nodes, mrca)}

NamesOf(clade) == {<<m>> : m \in clade}

\* the clades of at least 2 members of a history
BigClades(hist) ==
    {c \in UNION {Range(hist[i].communities) : i \in 1..Len(hist)} : Cardinality(c) >= 2}

Monophyly(hist) ==
    /\ \A c \in BigClades(hist) : MrcaLeafNames(c) = NamesOf(c)
    /\ \A n \in TreeNodes :
          ~is_leaf(nodes, n) =>
              LET below == {nodes[l].name : l \in get_leaves(nodes, n)}
              IN  \/ below = NamesOf(Languages(hist))
                  \/ \E c \in BigClades(hist) : below = NamesOf(c)

(* --------------------------- claims on the tree ----------------------- *)

\* C5 as claimed (inconsistent history is fatal): whenever the loop is at a
\* clade whose members' last observed ancestors are not one single node, the
\* function raises.  (Stated for the clades that have members.)
C5_AnyDisagreementRaises ==
    [][(pc = "clades" /\ CurrentClade # {} /\ Cardinality(CurrentAncestors) # 1)
          => pc' = "raised"]_vars

\* C5 as amended: at a non-empty clade not observed before, more than one last
\* observed ancestor raises, and none raises unless the entry's parameter is
\* the first entry's, in which case the clade goes below the root; a raise
\* leaves the tree as it was and ends the function; a clade that is attached
\* goes below the one node its members agree on.
C5_InconsistentHistoryRaises ==
    [][(pc = "clades" /\ CurrentClade # {} /\ CurrentClade \notin Range(observed_clades)) =>
          /\ \/ Cardinality(CurrentAncestors) > 1
             \/ /\ CurrentAncestors = {}
                /\ history[entry_idx].parameter # history[1].parameter
             => pc' = "raised" /\ error' = "ValueError" /\ nodes' = nodes
          /\ pc' # "raised" =>
                /\ Len(nodes') = Len(nodes) + 1
                /\ nodes'[Len(nodes')].up \in
                      IF CurrentAncestors = {} THEN {tree_root} ELSE CurrentAncestors
                /\ Cardinality(CurrentAncestors) <= 1
      ]_vars

\* once raised, no tree is returned
C5_RaisedIsFinal == pc = "raised" => ~ENABLED TreeNext

\* C5 witness: the error raised at a clade whose members have two different
\* last observed ancestors.
C5_Witness ==
    /\ pc = "raised"
    /\ error = "ValueError"
    /\ Cardinality(CurrentAncestors) = 2

\* C7 as claimed (tree leaf fidelity): for a history with coverage, monotonic
\* refinement and terminal completeness the tree is returned and its leaves
\* are named exactly by the languages, one leaf per language.
C7_LeafFidelity ==
    /\ (pc = "raised" /\ history # <<>>) => ~Complete(history)
    /\ (pc = "done" /\ Complete(history)) =>
          /\ {nodes[n].name : n \in Leaves} = NamesOf(Languages(history))
          /\ Cardinality(Leaves) = Cardinality(Languages(history))

\* C7 as amended: the same for histories with at least one language.
C7_LeafFidelityNonEmpty ==
    /\ (pc = "raised" /\ history # <<>>) => ~Complete(history)
    /\ (pc = "done" /\ Complete(history) /\ Languages(history) # {}) =>
          /\ {nodes[n].name : n \in Leaves} = NamesOf(Languages(history))
          /\ Cardinality(Leaves) = Cardinality(Languages(history))

\* C7 witness: the tree of a two-entry history over three languages whose
\* first entry has a clade of two.
C7_Witness ==
    /\ pc = "done"
    /\ Complete(history)
    /\ Len(history) = 2
    /\ Cardinality(Languages(history)) = 3
    /\ Len(history[1].communities) = 2

\* C8 (no unary nodes): in the returned tree every node that is not a leaf
\* has at least 2 children.
C8_NoUnaryNodes ==
    pc = "done" => \A n \in TreeNodes : ~is_leaf(nodes, n) => Len(nodes[n].children) >= 2

\* C8 witness: a returned tree whose root is not the node the assembly started
\* from (the unary root was replaced) and from which a unary node below the
\* root was spliced out as well: a chain of two unary nodes.
C8_Witness ==
    /\ pc = "done"
    /\ tree_root # 1
    /\ \E n \in DOMAIN nodes :
          n # 1 /\ n \notin TreeNodes /\ Len(nodes[n].children) = 1

\* C9 as claimed (monophyly): for a history with coverage and monotonic
\* refinement, every clade of at least 2 members is the leaf set of the most
\* recent common ancestor of its members, and every internal node's leaf set
\* is such a clade or the full language set.
C9_Monophyly == (pc = "done" /\ Consistent(history)) => Monophyly(history)

\* C9 as amended: the same for histories that also end in singleton clades.
C9_MonophylyComplete == (pc = "done" /\ Complete(history)) => Monophyly(history)

\* C9 witness: the tree of a complete history with a clade of two members
\* below a root of three languages.
C9_Witness ==
    /\ pc = "done"
    /\ Complete(history)
    /\ Cardinality(Languages(history)) = 3
    /\ \E c \in BigClades(history) : Cardinality(c) = 2

\* C10 (positive branch lengths): in every returned tree every node other than
\* the root has dist >= 1e-8.
C10_PositiveBranchLengths ==
    pc = "done" => \A n \in TreeNodes : n # tree_root => nodes[n].dist >= Eps

\* C10 witness: a returned tree from a history whose parameters decrease,
\* with a node that took the place of a spliced unary node.
C10_Witness ==
    /\ pc = "done"
    /\ Len(history) = 2
    /\ history[2].parameter < history[1].parameter
    /\ \E n \in DOMAIN nodes : n # 1 /\ n \notin TreeNodes
    /\ Cardinality(TreeNodes) >= 3

(* --------------------- claims on independent runs --------------------- *)

\* run_iterate and Iterate are the same step: what Iterate does to the state
\* is what run_iterate does to the run made of pc, error, history, parameter
\* and value, for the output the detector returned.
RunOf(p, e, h, q, v) == [pc |-> p, error |-> e, history |-> h, parameter |-> q, value |-> v]

IterateIsRunIterate ==
    [][pc = "loop" =>
          RunOf(pc', error', history', parameter', value') =
              run_iterate(RunOf(pc, error, history, parameter, value),
                          identified_communities', ParamCeiling)]_vars

\* C11 (determinism): two independent runs of build_history on the identical
\* graph, detector name, strategy name and initial parameters that both end
\* (return or raise) end the same way with identical histories; the tree is
\* assembled from the history alone.
C11_Determinism ==
    (twin # NoTwin /\ twin[1].pc \in {"returned", "raised"}
                   /\ twin[2].pc \in {"returned", "raised"}) =>
        /\ twin[1].pc = twin[2].pc
        /\ twin[1].history = twin[2].history

(* ---------------------- more claims on the sweep ---------------------- *)

\* C12 (the adaptive strategy runs): with strategy 'adaptive' and a supported
\* detector the sweep goes from iteration to iteration without raising, until
\* the reconciled count equals the target.
C12_AdaptiveRuns ==
    (strategy_name = "adaptive" /\ method \in SupportedMethods) => pc # "raised"

\* C13 (strictly growing history): the number of communities strictly
\* increases from each entry of history to the next, and an iteration appends
\* HistoryEntry(parameter, communities) if it is the first or its reconciled
\* count is greater than the count of the last entry, and otherwise leaves
\* history as it is.
C13_StrictlyGrowingHistory ==
    /\ [](\A i \in 1..(Len(history) - 1) :
             Len(history[i + 1].communities) > Len(history[i].communities))
    /\ [][pc = "loop" =>
             history' = IF history = <<>> \/ Len(communities') > Len(Last(history).communities)
                        THEN Append(history, HistoryEntry(parameter, communities'))
                        ELSE history]_vars

\* C13 witness: a fixed-increment sweep with two entries or more whose last
\* iteration added nothing: the last entry is older than the last iteration.
C13_Witness ==
    /\ strategy_name = "fixed"
    /\ pc = "loop"
    /\ Len(history) >= 2
    /\ Last(history).parameter < parameter - Increment

\* C14 (parameter ordering): in history the parameter of each entry is
\* strictly greater than the parameter of the entry before it, for every
\* supported strategy, initial_value and adjust_factor.  Stated in the weaker
\* form the claim implies: the parameter of an entry is never smaller than the
\* parameter of the entry before it.
C14_ParameterOrdering ==
    \A i \in 1..(Len(history) - 1) : history[i + 1].parameter >= history[i].parameter

(* ----------------------- more claims on the tree ---------------------- *)

\* an empty history, or a history whose only entry has no clades
Degenerate(hist) == hist = <<>> \/ (Len(hist) = 1 /\ hist[1].communities = <<>>)

\* C15 (degenerate input is not an error): on an empty history and on a
\* history whose only entry has no clades build_tree_from_history raises
\* nothing, never enters the loop over clades, and what it returns is a single
\* root without parent and without children.
C15_DegenerateInput ==
    Degenerate(history) =>
        /\ error = "none"
        /\ pc \in {"assemble", "prune", "cleanup", "done"}
        /\ pc = "done" =>
              /\ TreeNodes = {tree_root}
              /\ nodes[tree_root].children = <<>>
              /\ nodes[tree_root].up = 0

\* C15 witness: the tree returned for the history whose only entry has no
\* clades.
C15_Witness ==
    /\ pc = "done"
    /\ Len(history) = 1
    /\ history[1].communities = <<>>

(* ------------------------ claims on the graphs ------------------------ *)

\* the sum over all concepts of the number of cognate sets languages a and b
\* share under the concept
SharedTotal(data, a, b) ==
    SumFn([c \in Concepts |->
              IF <<a, c>> \in DOMAIN data /\ <<b, c>> \in DOMAIN data
              THEN Cardinality(data[<<a, c>>] \cap data[<<b, c>>])
              ELSE 0])

\* C16 (unadjusted graph weights): in the graph cognateset_graph returns, two
\* distinct languages are joined by an edge if and only if the sum over all
\* concepts of the size of the intersection of their cognate sets is > 0, the
\* weight of the edge is that sum, in whatever order the languages are listed,
\* and every edge joins two distinct languages.
C16_UnadjustedWeights ==
    (pc = "built" /\ graph_args.method = "cognateset_graph") =>
        /\ \A a, b \in languages(graph_args.data) :
              a # b =>
                 /\ {a, b} \in DOMAIN G.weight <=> SharedTotal(graph_args.data, a, b) > 0
                 /\ {a, b} \in DOMAIN G.weight =>
                        G.weight[{a, b}] = SharedTotal(graph_args.data, a, b)
        /\ \A edge \in DOMAIN G.weight :
              Cardinality(edge) = 2 /\ edge \subseteq languages(graph_args.data)

\* C16 witness: a graph built from languages listed in another order than
\* 1, 2, 3, with an edge of weight 2 that sums one shared cognate set under
\* each of the two concepts, and a pair of languages without an edge.
C16_Witness ==
    /\ pc = "built"
    /\ graph_args.method = "cognateset_graph"
    /\ graph_args.order # <<1, 2, 3>>
    /\ \E a, b \in G.nodes :
          /\ {<<a, 1>>, <<a, 2>>, <<b, 1>>, <<b, 2>>} \subseteq DOMAIN graph_args.data
          /\ a # b
          /\ {a, b} \in DOMAIN G.weight
          /\ G.weight[{a, b}] = 2
          /\ Cardinality(graph_args.data[<<a, 1>>] \cap graph_args.data[<<b, 1>>]) = 1
    /\ \E a, b \in G.nodes : a # b /\ {a, b} \notin DOMAIN G.weight

\* C17 (graph node set): the nodes of the graph either builder returns are
\* the languages of the keys of data, nothing is raised, and empty data give
\* the graph without nodes and edges.
C17_GraphNodeSet ==
    /\ pc \in {"graph", "built"}
    /\ error = "none"
    /\ pc = "built" =>
          /\ G.nodes = languages(graph_args.data)
          /\ DOMAIN graph_args.data = {} => G.nodes = {} /\ DOMAIN G.weight = {}

\* C17 witness: a graph of adjusted_cognateset_graph with an edge and with a
\* language of degree 0.
C17_Witness ==
    /\ pc = "built"
    /\ graph_args.method = "adjusted_cognateset_graph"
    /\ DOMAIN G.weight # {}
    /\ \E lang \in G.nodes : \A edge \in DOMAIN G.weight : lang \notin edge

\* C18 (zero-distance guard): adjusted_cognateset_graph never returns a graph
\* with an edge whose weight comes from a division by a zero distance.
C18_ZeroDistanceGuard ==
    (pc = "built" /\ graph_args.method = "adjusted_cognateset_graph") =>
        \A edge \in DOMAIN G.weight : ~G.weight[edge].inf

(* --------------------- claims on the history's frame ------------------ *)

\* C19 (append-only sweep): every step of build_history leaves the graph as
\* it is and leaves every entry history holds as it is; history changes by at
\* most one entry appended at its end.
C19_AppendOnly ==
    [][/\ G' = G
       /\ Len(history') \in {Len(history), Len(history) + 1}
       /\ \A i \in 1..Len(history) : history'[i] = history[i]]_vars

\* C19 witness: a sweep on the graph it was handed that has appended a third
\* entry behind two earlier ones.
C19_Witness ==
    /\ pc \in {"loop", "returned"}
    /\ G = SweepGraph
    /\ Len(history) = 3

\* the non-empty intersections list2[i] \cap list1[j], by i and then by j
ExpectedSplit(list1, list2) ==
    LET n == Len(list1)
        all == [k \in 1..(Len(list2) * n) |->
                   list2[((k - 1) \div n) + 1] \cap list1[((k - 1) % n) + 1]]
    IN  SelectSeq(all, LAMBDA x : x # {})

\* C20 (reconciliation result): split_sets(previous, identified) is the list
\* of the non-empty intersections of each identified set with each previous
\* set, in the order of the identified sets and within one identified set in
\* the order of the previous sets; on the two examples of the claim it gives
\* [{1,2},{3},{4,5},{6},{0},{7,8}] and [{A,B}] (A, B, C, D being 1, 2, 3, 4).
C20_ReconciliationResult ==
    /\ pc = "split_done" => communities = ExpectedSplit(split_args.list1, split_args.list2)
    /\ split_sets(<<{0, 1, 2, 3}, {4, 5}, {6, 7, 8}>>, <<{1, 2}, {3}, {4, 5, 6}, {0, 7, 8}>>)
          = <<{1, 2}, {3}, {4, 5}, {6}, {0}, {7, 8}>>
    /\ split_sets(<<{1, 2, 3}>>, <<{1, 2, 4}>>) = <<{1, 2}>>

\* C20 witness: a result of three sets from two previous and two identified
\* sets, the second identified set meeting both previous sets.
C20_Witness ==
    /\ pc = "split_done"
    /\ Len(split_args.list1) = 2
    /\ Len(split_args.list2) = 2
    /\ Len(communities) = 3
    /\ split_args.list2[2] \cap split_args.list1[1] # {}
    /\ split_args.list2[2] \cap split_args.list1[2] # {}

(* ------------------- claims on the parameter schedule ----------------- *)

\* the sweep has ended: parameter is still the parameter of its last iteration
Ended == pc \in {"returned", "raised", "beyond"}

\* C21 (detector called at the recorded parameter): when the sweep has ended
\* after an invocation of the detector, the resolution of the last invocation
\* is the parameter of the last iteration, the parameter an entry appended by
\* that iteration holds.
C21_DetectorAtParameter == (Ended /\ detector_invoked) => resolution = parameter

(* ------------------------ claims on the assembly ---------------------- *)

\* the first entry of hist in which the clade appears
FirstEntry(hist, clade) ==
    MinOf({i \in 1..Len(hist) : clade \in Range(hist[i].communities)})

\* C22 (one node per distinct clade): while build_tree_from_history assembles
\* the tree, every clade with members it has gone past has exactly one node,
\* named by the clade and recorded at the parameter of the first entry the
\* clade appears in; and the step at a clade observed before leaves the nodes,
\* their recorded resolutions and the last-observed-ancestor map as they are.
C22_OneNodePerClade ==
    /\ [](pc \in {"clades", "prune"} =>
            /\ Len(nodes) = Len(observed_clades) + 1
            /\ Len(node_resolutions) = Len(nodes)
            /\ \A i, j \in 1..Len(observed_clades) :
                  i # j => observed_clades[i] # observed_clades[j]
            /\ \A i \in 1..Len(observed_clades) :
                  /\ nodes[i + 1].name = clade_label(observed_clades[i])
                  /\ node_resolutions[i + 1] =
                         history[FirstEntry(history, observed_clades[i])].parameter
            /\ \A e \in 1..Len(history) : \A k \in 1..Len(history[e].communities) :
                  (history[e].communities[k] # {}
                      /\ (e < entry_idx \/ (e = entry_idx /\ k < clade_idx))) =>
                          history[e].communities[k] \in Range(observed_clades))
    /\ [][(pc = "clades" /\ CurrentClade \in Range(observed_clades)) =>
             /\ nodes' = nodes
             /\ node_resolutions' = node_resolutions
             /\ last_observed_ancestor' = last_observed_ancestor
             /\ observed_clades' = observed_clades
             /\ pc' # "raised"]_vars

\* C22 witness: the assembly has gone through a history of two entries with
\* different parameters that share a clade, and has made nodes for two clades
\* or more.
C22_Witness ==
    /\ pc = "prune"
    /\ Len(history) = 2
    /\ history[1].parameter # history[2].parameter
    /\ \E c \in Range(history[1].communities) \cap Range(history[2].communities) : c # {}
    /\ Len(observed_clades) >= 2

\* C23 (branch length at attachment): while the tree is assembled, the
\* resolution recorded for the root is 0 and every other node hangs below its
\* parent with dist = max(1e-8, its recorded resolution - the resolution
\* recorded for its parent); the step that creates a node records the
\* parameter of the entry the loop is at and attaches the node with that dist.
C23_BranchLengthAtAttachment ==
    /\ [](pc \in {"clades", "prune"} =>
            /\ node_resolutions[tree_root] = 0
            /\ \A n \in DOMAIN nodes :
                  n # tree_root =>
                     /\ nodes[n].up # 0
                     /\ nodes[n].dist =
                            Max(Eps, node_resolutions[n] - node_resolutions[nodes[n].up]))
    /\ [][(pc = "clades" /\ Len(nodes') = Len(nodes) + 1) =>
             /\ node_resolutions'[Len(nodes')] = history[entry_idx].parameter
             /\ nodes'[Len(nodes')].dist =
                    Max(Eps, history[entry_idx].parameter
                                - node_resolutions[nodes'[Len(nodes')].up])]_vars

\* C23 witness: an assembled tree with a node below a parent other than the
\* root whose dist is the difference of the two parameters, and a node below
\* the root whose dist is the floor.
C23_Witness ==
    /\ pc = "prune"
    /\ \E n \in DOMAIN nodes :
          /\ n # tree_root
          /\ nodes[n].up # tree_root
          /\ nodes[n].dist = node_resolutions[n] - node_resolutions[nodes[n].up]
          /\ nodes[n].dist > Eps
    /\ \E n \in DOMAIN nodes :
          n # tree_root /\ nodes[n].up = tree_root /\ nodes[n].dist = Eps

(* ----------------------- claims on the unary collapse ----------------- *)

\* the sum of the dists on the way from node n up to its ancestor a
RECURSIVE UpDist(_, _, _)
UpDist(ns, n, a) == IF n = a THEN 0 ELSE ns[n].dist + UpDist(ns, ns[n].up, a)

\* the most recent common ancestor of a and b below root
Mrca(ns, root, a, b) ==
    LET common == {n \in Descendants(ns, root) : {a, b} \subseteq Descendants(ns, n)}
    IN  CHOOSE n \in common : \A o \in common : n \in Descendants(ns, o)

\* the distance between two nodes a and b of the tree below root
LeafDist(ns, root, a, b) ==
    UpDist(ns, a, Mrca(ns, root, a, b)) + UpDist(ns, b, Mrca(ns, root, a, b))

\* C24 (unary collapse preserves distances): the step
\* final_tree_root = remove_single_descendant_nodes(tree_root) keeps the
\* leaves; every node it keeps below the root it returns has as dist the sum
\* of the old dists on the way up to its new parent (its old dist plus the
\* dists of the unary nodes removed above it); the distance of every leaf from
\* the root handed in is unchanged when that root is returned; the distance
\* between any two leaves is unchanged; and a child returned in the place of
\* a unary root has dist 0 and no parent.
C24_UnaryCollapseKeepsDistances ==
    [][pc = "prune" =>
          /\ get_leaves(nodes', tree_root') = get_leaves(nodes, tree_root)
          /\ \A n \in Descendants(nodes', tree_root') :
                n # tree_root' =>
                    nodes'[n].dist = UpDist(nodes, n, nodes'[n].up)
          /\ tree_root' = tree_root =>
                \A l \in get_leaves(nodes, tree_root) :
                    UpDist(nodes', l, tree_root') = UpDist(nodes, l, tree_root)
          /\ \A a, b \in get_leaves(nodes, tree_root) :
                LeafDist(nodes', tree_root', a, b) = LeafDist(nodes, tree_root, a, b)
          /\ tree_root' # tree_root =>
                /\ nodes'[tree_root'].dist = 0
                /\ nodes'[tree_root'].up = 0
                /\ tree_root' \in Descendants(nodes, tree_root)]_vars

\* C24 witness: after the pass, a tree of two leaves or more in which a leaf
\* took the place of a unary node below the root and carries both dists.
C24_Witness ==
    /\ pc = "cleanup"
    /\ Cardinality(Leaves) >= 2
    /\ \E u \in DOMAIN nodes : \E l \in Leaves :
          /\ u \notin TreeNodes
          /\ u # 1
          /\ nodes[u].children = <<l>>
          /\ nodes[l].up = tree_root
          /\ nodes[l].dist > nodes[u].dist
          /\ nodes[u].dist >= Eps

(* -------------------------- claims on the names ----------------------- *)

\* the last entry of hist has clades, each of one member
EndsInSingletons(hist) ==
    /\ hist # <<>>
    /\ Last(hist).communities # <<>>
    /\ \A k \in 1..Len(Last(hist).communities) :
          Cardinality(Last(hist).communities[k]) = 1

\* every internal node has the empty name, every leaf the name of one language
NamesClean ==
    \A n \in TreeNodes :
        IF is_leaf(nodes, n) THEN Len(nodes[n].name) = 1 ELSE nodes[n].name = <<>>

C26_FixedSchedule ==
    /\ []((strategy_name = "fixed" /\ pc = "loop") =>
             /\ ~detector_invoked => parameter = 0
             /\ \E k \in 0..MaxSweep : parameter = k * Increment
             /\ detector_invoked => Len(communities) # num_languages)
    /\ [][(strategy_name = "fixed" /\ pc = "loop") =>
             /\ pc' = "returned" <=> Len(communities') = num_languages
             /\ pc' = "loop" => parameter' = parameter + Increment
             /\ pc' # "loop" => parameter' = parameter]_vars

\* C26 witness: a fixed-increment sweep called with initial_value 0.1 that
\* returned in its third iteration, at parameter 0.2.
C26_Witness ==
    /\ strategy_name = "fixed"
    /\ initial_value = Increment
    /\ pc = "returned"
    /\ parameter = 2 * Increment
    /\ Len(communities) = num_languages

\* b to the power n
RECURSIVE Pow(_, _)
Pow(b, n) == IF n = 0 THEN 1 ELSE b * Pow(b, n - 1)

\* initial_value * (1 + adjust_factor)^n, adjust_factor being in tenths; the
\* initial values are whole multiples of 10^n units
Compounded(init, af, n) == (init \div Pow(10, n)) * Pow(10 + af, n)

\* C27 (dynamic schedule compounds): with strategy 'dynamic' the first
\* iteration runs at the caller's initial_value, every further iteration at
\* the parameter of the one before plus adjust_factor times that parameter,
\* and so every parameter is initial_value * (1 + adjust_factor)^n for some n.
C27_DynamicCompounds ==
    /\ []((strategy_name = "dynamic" /\ pc = "loop") =>
             /\ ~detector_invoked => parameter = initial_value
             /\ parameter = value
             /\ \E n \in 0..MaxSweep : parameter = Compounded(initial_value, adjust_factor, n))
    /\ [][(strategy_name = "dynamic" /\ pc = "loop" /\ pc' = "loop") =>
             parameter' = parameter + (adjust_factor * parameter) \div 10]_vars

\* C27 witness: a dynamic sweep from 0.1 with adjust_factor 0.5 that is at its
\* third parameter, 0.1 * 1.5^2 = 0.225.
C27_Witness ==
    /\ strategy_name = "dynamic"
    /\ initial_value = Increment
    /\ adjust_factor = 5
    /\ pc = "loop"
    /\ parameter = 22500000

(* --------------------- claims on the reconciliation ------------------- *)

\* C28 (reconciliation never coarsens): in every iteration behind the first,
\* the detector's output and the last accepted entry being partitions of the
\* languages, the reconciled count is not smaller than the count of the last
\* accepted entry, it is equal only if the reconciled clades are, as a set,
\* the clades of the last accepted entry, and the iteration leaves history as
\* it is exactly in that case.
C28_NeverCoarsens ==
    [][(pc = "loop" /\ history # <<>>) =>
          /\ Len(communities') >= Len(Last(history).communities)
          /\ Len(communities') = Len(Last(history).communities) =>
                Range(communities') = Range(Last(history).communities)
          /\ history' = history <=>
                Range(communities') = Range(Last(history).communities)]_vars

\* C28 witness: a fixed-increment sweep whose last iteration was dropped: its
\* reconciled clades are the clades of the last accepted entry, of two
\* entries or more the newest, listed in another order, and cut out of a
\* detector output that was another partition.
C28_Witness ==
    /\ strategy_name = "fixed"
    /\ pc = "loop"
    /\ Len(history) >= 2
    /\ Last(history).parameter < parameter - Increment
    /\ Range(communities) = Range(Last(history).communities)
    /\ communities # Last(history).communities
    /\ Range(identified_communities) # Range(communities)

(* ----------------------- claims on the stop test ---------------------- *)

\* C29 (dynamic strategy stalls at zero): with strategy 'dynamic', a supported
\* detector and initial_value 0, the parameter and the strategy's value are 0
\* in every iteration, the detector is invoked at resolution 0 only, every
\* entry of history holds parameter 0, the sweep never raises, and it ends
\* only by the return of an iteration whose reconciled count is num_languages.
C29_DynamicStallsAtZero ==
    (strategy_name = "dynamic" /\ initial_value = 0 /\ method \in SupportedMethods) =>
        /\ parameter = 0
        /\ value = 0
        /\ resolution = 0
        /\ \A i \in 1..Len(history) : history[i].parameter = 0
        /\ pc \in {"setup", "loop", "returned"}
        /\ pc = "returned" => Len(communities) = num_languages
        /\ (pc = "loop" /\ detector_invoked) => Len(communities) # num_languages

\* C29 witness: a dynamic sweep from initial_value 0 that is still in its loop
\* after three accepted entries, all detected at resolution 0.
C29_Witness ==
    /\ strategy_name = "dynamic"
    /\ initial_value = 0
    /\ pc = "loop"
    /\ Len(history) = 3
    /\ parameter = 0
    /\ num_languages = Cardinality(Langs)

\* C30 (no overshoot of the stop test): when num_languages is the number of
\* graph nodes, the reconciled count of every iteration and the count of every
\* entry of history is at most num_languages, and a sweep that has not
\* returned has a count below num_languages: the count cannot go past the
\* target without the stop test seeing it equal.
C30_NoOvershoot ==
    num_languages = Cardinality(G.nodes) =>
        /\ Len(communities) <= num_languages
        /\ \A i \in 1..Len(history) : Len(history[i].communities) <= num_languages
        /\ (detector_invoked /\ pc # "returned") => Len(communities) < num_languages

\* C30 witness: a sweep with the number of graph nodes as target whose count
\* went from one community to one per language in a single iteration.
C30_Witness ==
    /\ num_languages = Cardinality(G.nodes)
    /\ pc = "returned"
    /\ Len(history) = 2
    /\ Len(history[1].communities) = 1
    /\ Len(history[2].communities) = num_languages
    /\ history[2].parameter > history[1].parameter + Increment

====
